---- MODULE Spec2Model ----
(***************************************************************************)
(* Model of the quantitative engine of aiswarm-hub: the LMSR market maker  *)
(* (backend/handlers/math/probabilities/lmsr/lmsr.go), the swarm consensus *)
(* aggregator (calculateSwarmConsensus) and the agent's scores and         *)
(* activity, and of the handlers around it that share rows of the          *)
(* database: council votes, bets and votes on predictions.                 *)
(*                                                                         *)
(* Arithmetic.  The Go code computes in float64.  The model computes in    *)
(* fixed point: quantities, shares and currency are integers counting      *)
(* millionths (Unit = 1.0), and the values of math.Exp, math.Log and the   *)
(* prices are integers counting hundred-millionths (FS = 1.0).  Every      *)
(* operation truncates to its resolution, as every float64 operation       *)
(* rounds to its own.  The liquidity parameter B is a whole number.        *)
(***************************************************************************)
EXTENDS Integers, Sequences, FiniteSets, TLC

Unit == 10^6
FS   == 10^8

Max(a, b) == IF a >= b THEN a ELSE b
Abs(a) == IF a < 0 THEN -a ELSE a

\* floor(a*x/b) for a, b > 0 without forming a*x
MulDiv(a, x, b) == a * (x \div b) + (a * (x % b)) \div b

\* floor(a*b/FS) for 0 <= a, b <= 2*FS, by halves of four digits
MulFS(a, b) ==
    LET a1 == a \div 10000  a0 == a % 10000
        b1 == b \div 10000  b0 == b % 10000
    IN  a1 * b1 + (a1 * b0 + a0 * b1) \div 10000 + (a0 * b0) \div FS

RECURSIVE DivDigits(_, _, _, _)
DivDigits(rem, b, n, acc) ==
    IF n = 0 THEN acc
    ELSE DivDigits((rem * 10) % b, b, n - 1, acc * 10 + (rem * 10) \div b)

\* floor(a*FS/b) for 0 <= a, 0 < b <= 2*FS, by long division
DivFS(a, b) == DivDigits(a % b, b, 8, a \div b)

RECURSIVE Pow2(_)
Pow2(k) == IF k = 0 THEN 1 ELSE 2 * Pow2(k - 1)

\* ln(m/FS)*FS for FS <= m <= 2*FS: 2*atanh((m-1)/(m+1)) by its series
RECURSIVE AtanhSeries(_, _, _, _)
AtanhSeries(p, z2, j, acc) ==
    IF p = 0 \/ j > 12 THEN acc
    ELSE AtanhSeries(MulFS(p, z2), z2, j + 1, acc + p \div (2 * j + 1))

LogMantissa(m) ==
    LET z == DivFS((m - FS) \div 2, (m + FS) \div 2)
    IN  2 * AtanhSeries(z, MulFS(z, z), 0, 0)

Ln2FS == LogMantissa(2 * FS)

\* math.Log of y/FS for y >= FS
RECURSIVE LogFrom(_, _)
LogFrom(y, k) ==
    IF y <= 2 * FS THEN LogMantissa(y) + k * Ln2FS
    ELSE LogFrom(y \div 2, k + 1)

Log(y) == LogFrom(y, 0)

\* math.Log(float64(n)) for a whole number n >= 1
RECURSIVE LogIntFrom(_, _, _)
LogIntFrom(n, p, k) ==
    IF n < 2 * p THEN LogMantissa(MulDiv(n, FS, p)) + k * Ln2FS
    ELSE LogIntFrom(n, 2 * p, k + 1)

LogInt(n) == LogIntFrom(n, 1, 0)

\* exp(-r/FS)*FS for 0 <= r < Ln2FS, by its series
RECURSIVE ExpSeries(_, _, _, _)
ExpSeries(t, r, i, acc) ==
    IF t = 0 \/ i > 16 THEN acc
    ELSE ExpSeries(MulFS(t, r) \div (i + 1), r, i + 1,
                   IF i % 2 = 0 THEN acc + t ELSE acc - t)

\* math.Exp(-d/b) for a quantity d >= 0 (millionths) and b > 0
ExpNegRatio(d, b) ==
    IF d \div b >= 20 * Unit THEN 0
    ELSE LET x == MulDiv(100, d, b)
             k == x \div Ln2FS
             r == x % Ln2FS
         IN  ExpSeries(FS, r, 0, 0) \div Pow2(k)


(***************************************************************************)
(* lmsr.go: the market maker.  The receiver's field l.B is the first       *)
(* parameter of every operator.                                            *)
(***************************************************************************)
DefaultLiquidity == 100
MaxIterations == 100
UpperBoundFactor == 10
\* 0.0001 in millionths
Tolerance == Unit \div 10000
\* hundred-millionths per millionth
FSPerUnit == FS \div Unit

NewStrictlyNegative(liquidity) == IF liquidity < 0 THEN DefaultLiquidity ELSE liquidity

\* New: the liquidity the maker keeps
New(liquidity) == IF liquidity <= 0 THEN DefaultLiquidity ELSE liquidity

CostShiftNotRestored(B, qYes, qNo) ==
    LET maxQ == Max(qYes, qNo)
    IN  MulDiv(B, Log(ExpNegRatio(maxQ - qYes, B) + ExpNegRatio(maxQ - qNo, B)),
               FSPerUnit)

Cost(B, qYes, qNo) ==
    LET maxQ == Max(qYes, qNo)
    IN  MulDiv(B, maxQ, B)
        + MulDiv(B, Log(ExpNegRatio(maxQ - qYes, B) + ExpNegRatio(maxQ - qNo, B)),
                 FSPerUnit)

PriceYesGuardedDenominator(B, qYes, qNo) ==
    LET maxQ   == Max(qYes, qNo)
        expYes == ExpNegRatio(maxQ - qYes, B)
        expNo  == ExpNegRatio(maxQ - qNo, B)
    IN  DivFS(expYes, expYes + expNo + 1)

PriceYes(B, qYes, qNo) ==
    LET maxQ   == Max(qYes, qNo)
        expYes == ExpNegRatio(maxQ - qYes, B)
        expNo  == ExpNegRatio(maxQ - qNo, B)
    IN  DivFS(expYes, expYes + expNo)

PriceNoOwnQuotient(B, qYes, qNo) ==
    LET maxQ   == Max(qYes, qNo)
        expYes == ExpNegRatio(maxQ - qYes, B)
        expNo  == ExpNegRatio(maxQ - qNo, B)
    IN  DivFS(expNo, expYes + expNo)

PriceNo(B, qYes, qNo) == FS - PriceYes(B, qYes, qNo)

\* the test the code applies to an outcome string
IsYes(outcome) == outcome = "yes" \/ outcome = "YES"

\* what a pricing function reports besides its number: the functions return a
\* float64 (or a BetSimulation) and have no error result and no panic
PricingError(outcome) == "none"

\* variant: only the lower-case "yes" buys YES
CostToBuyLowerCaseOnly(B, qYes, qNo, shares, outcome) ==
    IF outcome = "yes"
    THEN Cost(B, qYes + shares, qNo) - Cost(B, qYes, qNo)
    ELSE Cost(B, qYes, qNo + shares) - Cost(B, qYes, qNo)

CostToBuy(B, qYes, qNo, shares, outcome) ==
    LET currentCost == Cost(B, qYes, qNo)
        newCost == IF IsYes(outcome) THEN Cost(B, qYes + shares, qNo)
                   ELSE Cost(B, qYes, qNo + shares)
    IN  newCost - currentCost

\* variant: the proceeds of a sale are the cost of buying as many shares more
CostToSellAsAnotherPurchase(B, qYes, qNo, shares, outcome) ==
    CostToBuy(B, qYes, qNo, shares, outcome)

CostToSell(B, qYes, qNo, shares, outcome) == -CostToBuy(B, qYes, qNo, -shares, outcome)

\* the loop of SharesForCost from iteration i with the bracket [low, high].
\* A bracket no wider than the resolution has mid = low in every remaining
\* iteration, and each way out of the loop returns that same value.
RECURSIVE Bisect(_, _, _, _, _, _, _, _)
Bisect(B, qYes, qNo, cost, outcome, i, low, high) ==
    IF i >= MaxIterations \/ high - low <= 1 THEN (low + high) \div 2
    ELSE LET mid == (low + high) \div 2
             midCost == CostToBuy(B, qYes, qNo, mid, outcome)
         IN  IF Abs(midCost - cost) < Tolerance THEN mid
             ELSE IF midCost < cost
                  THEN Bisect(B, qYes, qNo, cost, outcome, i + 1, mid, high)
                  ELSE Bisect(B, qYes, qNo, cost, outcome, i + 1, low, mid)

\* variant: the upper bound is doubled while its cost is below the target
RECURSIVE WidenedHigh(_, _, _, _, _, _, _)
WidenedHigh(B, qYes, qNo, cost, outcome, high, doublings) ==
    IF doublings = 0 \/ CostToBuy(B, qYes, qNo, high, outcome) >= cost THEN high
    ELSE WidenedHigh(B, qYes, qNo, cost, outcome, 2 * high, doublings - 1)

SharesForCostWidening(B, qYes, qNo, cost, outcome) ==
    IF cost <= 0 THEN 0
    ELSE Bisect(B, qYes, qNo, cost, outcome, 0, 0,
                WidenedHigh(B, qYes, qNo, cost, outcome, cost * UpperBoundFactor, 3))

SharesForCost(B, qYes, qNo, cost, outcome) ==
    IF cost <= 0 THEN 0
    ELSE Bisect(B, qYes, qNo, cost, outcome, 0, 0, cost * UpperBoundFactor)

\* the number of times the loop of SharesForCost evaluates CostToBuy, from
\* iteration i with the bracket [low, high].  In a bracket no wider than the
\* resolution mid stays at low: the loop returns at once when its cost is
\* within the tolerance and runs through its remaining iterations otherwise.
RECURSIVE BisectEvaluations(_, _, _, _, _, _, _, _)
BisectEvaluations(B, qYes, qNo, cost, outcome, i, low, high) ==
    IF i >= MaxIterations THEN i
    ELSE LET mid == (low + high) \div 2
             midCost == CostToBuy(B, qYes, qNo, mid, outcome)
         IN  IF Abs(midCost - cost) < Tolerance THEN i + 1
             ELSE IF high - low <= 1 THEN MaxIterations
             ELSE IF midCost < cost
                  THEN BisectEvaluations(B, qYes, qNo, cost, outcome, i + 1, mid, high)
                  ELSE BisectEvaluations(B, qYes, qNo, cost, outcome, i + 1, low, mid)

SharesForCostEvaluations(B, qYes, qNo, cost, outcome) ==
    IF cost <= 0 THEN 0
    ELSE BisectEvaluations(B, qYes, qNo, cost, outcome, 0, 0, cost * UpperBoundFactor)

NewProbabilityAfterBet(B, qYes, qNo, amount, outcome) ==
    LET shares == SharesForCost(B, qYes, qNo, amount, outcome)
    IN  IF IsYes(outcome) THEN PriceYes(B, qYes + shares, qNo)
        ELSE PriceYes(B, qYes, qNo + shares)

MaxLoss(B) == MulDiv(B, LogInt(2), FSPerUnit)

GetMarketState(B, qYes, qNo, totalVolume) ==
    [QYes |-> qYes, QNo |-> qNo,
     PriceYes |-> PriceYes(B, qYes, qNo), PriceNo |-> PriceNo(B, qYes, qNo),
     TotalVolume |-> totalVolume]

\* float64 division cost / shares: IEEE 754 gives an infinity or NaN for a
\* zero divisor; a finite quotient is carried in hundred-millionths
FloatQuotient(cost, shares) ==
    IF shares = 0
    THEN [class |-> IF cost = 0 THEN "NaN" ELSE IF cost > 0 THEN "+Inf" ELSE "-Inf",
          value |-> 0]
    ELSE [class |-> "finite",
          value |-> IF shares <= 2 * FS THEN DivFS(cost, shares)
                    ELSE DivFS(cost \div FSPerUnit, shares \div FSPerUnit)]

SimulateBetSidesSwapped(B, qYes, qNo, amount, outcome) ==
    LET currentPriceYes == PriceYes(B, qYes, qNo)
        cost == amount
        shares == SharesForCost(B, qYes, qNo, amount, outcome)
        newQYes == IF IsYes(outcome) THEN qYes ELSE qYes + shares
        newQNo  == IF IsYes(outcome) THEN qNo + shares ELSE qNo
        newPriceYes == PriceYes(B, newQYes, newQNo)
    IN  [SharesReceived |-> shares,
         Cost |-> cost,
         NewPriceYes |-> newPriceYes,
         NewPriceNo |-> FS - newPriceYes,
         PriceImpact |-> newPriceYes - currentPriceYes,
         AveragePrice |-> FloatQuotient(cost, shares),
         PotentialPayout |-> shares]

SimulateBet(B, qYes, qNo, amount, outcome) ==
    LET currentPriceYes == PriceYes(B, qYes, qNo)
        cost == amount
        shares == SharesForCost(B, qYes, qNo, amount, outcome)
        newQYes == IF IsYes(outcome) THEN qYes + shares ELSE qYes
        newQNo  == IF IsYes(outcome) THEN qNo ELSE qNo + shares
        newPriceYes == PriceYes(B, newQYes, newQNo)
    IN  [SharesReceived |-> shares,
         Cost |-> cost,
         NewPriceYes |-> newPriceYes,
         NewPriceNo |-> FS - newPriceYes,
         PriceImpact |-> newPriceYes - currentPriceYes,
         AveragePrice |-> FloatQuotient(cost, shares),
         PotentialPayout |-> shares]


(***************************************************************************)
(* calculateSwarmConsensus.  Reputation, confidence, weights, averages and *)
(* the consensus probability are carried in millionths (Unit = 1.0);       *)
(* amounts are whole numbers, as the int64 Amount of the code.             *)
(***************************************************************************)
TopPredictorsLimit == 10

\* floor(a*b/Unit) for 0 <= a, b <= 40*Unit, by halves of three digits
MulUnit(a, b) ==
    LET a1 == a \div 1000  a0 == a % 1000
        b1 == b \div 1000  b0 == b % 1000
    IN  a1 * b1 + (a1 * b0 + a0 * b1) \div 1000 + (a0 * b0) \div Unit

\* floor(a*Unit/b) for 0 <= a, 0 < b <= 200*Unit, by long division
DivUnit(a, b) == DivDigits(a % b, b, 6, a \div b)

\* math.Log(float64(n)) in millionths
LogIntUnit(n) == LogInt(n) \div FSPerUnit

\* variant: the zero value of SwarmConsensus as it is, ConsensusProbability 0
ZeroValueConsensus ==
    [ConsensusProbability |-> 0,
     TotalAgents |-> 0, TotalBets |-> 0, TotalWagered |-> 0,
     AverageConfidence |-> 0, AverageReputation |-> 0,
     Breakdown |-> [YesCount |-> 0, NoCount |-> 0, YesWeight |-> 0, NoWeight |-> 0,
                    YesAmount |-> 0, NoAmount |-> 0],
     TopPredictors |-> <<>>]

\* the zero value of SwarmConsensus with ConsensusProbability 0.5
NeutralConsensus ==
    [ConsensusProbability |-> Unit \div 2,
     TotalAgents |-> 0, TotalBets |-> 0, TotalWagered |-> 0,
     AverageConfidence |-> 0, AverageReputation |-> 0,
     Breakdown |-> [YesCount |-> 0, NoCount |-> 0, YesWeight |-> 0, NoWeight |-> 0,
                    YesAmount |-> 0, NoAmount |-> 0],
     TopPredictors |-> <<>>]

\* the accumulators as declared by the var block
EmptyAccumulators ==
    [weightedYesSum |-> 0, weightedNoSum |-> 0, totalWeight |-> 0,
     totalConfidence |-> 0, totalReputation |-> 0,
     yesCount |-> 0, noCount |-> 0, yesAmount |-> 0, noAmount |-> 0,
     topPredictors |-> <<>>, uniqueAgents |-> {}]

\* weight := reputationWeight * confidenceWeight * amountWeight
BetWeight(reputation, confidence, amount) ==
    LET amountWeight == DivUnit(LogIntUnit(amount + 1), LogIntUnit(100))
    IN  MulUnit(MulUnit(reputation, confidence), amountWeight)

\* one iteration of the loop over the bets
Accumulate(acc, bet, agents) ==
    IF bet.AgentID \notin DOMAIN agents THEN acc
    ELSE LET agent == agents[bet.AgentID]
             weight == BetWeight(agent.Reputation, bet.Confidence, bet.Amount)
             isYes == bet.Outcome = "yes"
         IN  [weightedYesSum |-> IF isYes THEN acc.weightedYesSum + weight
                                 ELSE acc.weightedYesSum,
              weightedNoSum |-> IF isYes THEN acc.weightedNoSum
                                ELSE acc.weightedNoSum + weight,
              yesCount |-> IF isYes THEN acc.yesCount + 1 ELSE acc.yesCount,
              noCount |-> IF isYes THEN acc.noCount ELSE acc.noCount + 1,
              yesAmount |-> IF isYes THEN acc.yesAmount + bet.Amount ELSE acc.yesAmount,
              noAmount |-> IF isYes THEN acc.noAmount ELSE acc.noAmount + bet.Amount,
              totalWeight |-> acc.totalWeight + weight,
              totalConfidence |-> acc.totalConfidence + bet.Confidence,
              totalReputation |-> acc.totalReputation + agent.Reputation,
              uniqueAgents |-> acc.uniqueAgents \cup {agent.ID},
              topPredictors |-> Append(acc.topPredictors,
                  [AgentName |-> agent.Name, Outcome |-> bet.Outcome,
                   Amount |-> bet.Amount, Confidence |-> bet.Confidence,
                   Reputation |-> agent.Reputation, Weight |-> weight,
                   Reasoning |-> bet.Reasoning])]

RECURSIVE AccumulateFrom(_, _, _, _)
AccumulateFrom(acc, bets, k, agents) ==
    IF k > Len(bets) THEN acc
    ELSE AccumulateFrom(Accumulate(acc, bets[k], agents), bets, k + 1, agents)

\* variant: neighbours of equal weight are swapped too
RECURSIVE BubblePassSwapsEqual(_, _, _)
BubblePassSwapsEqual(tp, j, limit) ==
    IF j >= limit THEN tp
    ELSE IF tp[j + 1].Weight <= tp[j + 2].Weight
         THEN BubblePassSwapsEqual([tp EXCEPT ![j + 1] = tp[j + 2], ![j + 2] = tp[j + 1]],
                                   j + 1, limit)
         ELSE BubblePassSwapsEqual(tp, j + 1, limit)

\* the inner loop of the bubble sort: j runs from its value up to limit - 1
\* (both 0-based, as in the code)
RECURSIVE BubblePass(_, _, _)
BubblePass(tp, j, limit) ==
    IF j >= limit THEN tp
    ELSE IF tp[j + 1].Weight < tp[j + 2].Weight
         THEN BubblePass([tp EXCEPT ![j + 1] = tp[j + 2], ![j + 2] = tp[j + 1]],
                         j + 1, limit)
         ELSE BubblePass(tp, j + 1, limit)

\* the outer loop: i runs from its value up to len - 2
RECURSIVE BubbleSort(_, _)
BubbleSort(tp, i) ==
    IF i >= Len(tp) - 1 THEN tp
    ELSE BubbleSort(BubblePass(tp, 0, Len(tp) - i - 1), i + 1)

\* variant: the ratio taken over the NO weight alone
ConsensusProbabilityOverNoWeight(acc) ==
    IF acc.totalWeight > 0 /\ acc.weightedNoSum > 0
    THEN DivUnit(acc.weightedYesSum, acc.weightedNoSum)
    ELSE Unit \div 2

\* consensusProbability from the accumulated sums
ConsensusProbabilityOf(acc) ==
    IF acc.totalWeight > 0 THEN DivUnit(acc.weightedYesSum, acc.totalWeight)
    ELSE Unit \div 2

calculateSwarmConsensus(bets, agents) ==
    IF Len(bets) = 0 THEN NeutralConsensus
    ELSE LET acc == AccumulateFrom(EmptyAccumulators, bets, 1, agents)
             sorted == BubbleSort(acc.topPredictors, 0)
             topPredictors == IF Len(sorted) > TopPredictorsLimit
                              THEN SubSeq(sorted, 1, TopPredictorsLimit)
                              ELSE sorted
             avgConfidence == IF Len(bets) > 0 THEN acc.totalConfidence \div Len(bets)
                              ELSE 0
             avgReputation == IF Len(bets) > 0 THEN acc.totalReputation \div Len(bets)
                              ELSE 0
         IN  [ConsensusProbability |-> ConsensusProbabilityOf(acc),
              TotalAgents |-> Cardinality(acc.uniqueAgents),
              TotalBets |-> Len(bets),
              TotalWagered |-> acc.yesAmount + acc.noAmount,
              AverageConfidence |-> avgConfidence,
              AverageReputation |-> avgReputation,
              Breakdown |-> [YesCount |-> acc.yesCount, NoCount |-> acc.noCount,
                             YesWeight |-> acc.weightedYesSum,
                             NoWeight |-> acc.weightedNoSum,
                             YesAmount |-> acc.yesAmount, NoAmount |-> acc.noAmount],
              TopPredictors |-> topPredictors]

(***************************************************************************)
(* The agent's scores and activity.  Scores are carried in ten-thousandths *)
(* (ScoreUnit = 1.0), the legacy reputation in millionths; counters are    *)
(* whole numbers.  A time.Time is a calendar day and an hour of that day   *)
(* in one location; the location has one day of 23 hours and one of 25     *)
(* (the daylight-saving transitions), which is where midnights are not 24  *)
(* hours apart.                                                            *)
(***************************************************************************)
ScoreUnit == 10^4
HoursPerDay == 24
SpringForwardDay == 1
FallBackDay == 2
NoTime == [day |-> -1, hour |-> -1]

\* math.Min
Min(a, b) == IF a <= b THEN a ELSE b

\* the hours of a calendar day of the location
DayHours(day) ==
    IF day = SpringForwardDay THEN HoursPerDay - 1
    ELSE IF day = FallBackDay THEN HoursPerDay + 1
    ELSE HoursPerDay

\* time.Date(year, month, day, 0, 0, 0, 0, location), in hours since day 0
RECURSIVE Midnight(_)
Midnight(day) == IF day <= 0 THEN 0 ELSE Midnight(day - 1) + DayHours(day - 1)

\* int(hours / 24): the conversion truncates towards zero
DaysBetween(hours) ==
    IF hours >= 0 THEN hours \div HoursPerDay ELSE -((-hours) \div HoursPerDay)

\* the row a registration creates: the column defaults of the Agent struct
RegisteredAgent ==
    [TotalPredictions |-> 0, CorrectPredictions |-> 0, ResolvedPredictions |-> 0,
     AccuracyScore |-> 50 * ScoreUnit, EngagementScore |-> 0, CreatorScore |-> 0,
     ActivityScore |-> 0, CompositeScore |-> (125 * ScoreUnit) \div 10,
     Reputation |-> Unit \div 2,
     TotalUpvotesReceived |-> 0, TotalDownvotesReceived |-> 0,
     TotalCommentsReceived |-> 0, TotalFollowers |-> 0,
     LastActiveAt |-> NoTime, CurrentStreak |-> 0, LongestStreak |-> 0,
     DaysActiveMonth |-> 0, MarketsCreated |-> 0, MarketEngagementAvg |-> 0]

\* variant: the raw percentage, without the prior of 50
RecalculateAccuracyScoreUnsmoothed(a) ==
    IF a.ResolvedPredictions = 0 THEN [a EXCEPT !.AccuracyScore = 50 * ScoreUnit]
    ELSE [a EXCEPT !.AccuracyScore =
              DivUnit(a.CorrectPredictions, a.ResolvedPredictions)]

RecalculateAccuracyScore(a) ==
    IF a.ResolvedPredictions = 0 THEN [a EXCEPT !.AccuracyScore = 50 * ScoreUnit]
    ELSE LET accuracy == DivUnit(a.CorrectPredictions, a.ResolvedPredictions)
             priorStrength == 10
         IN  [a EXCEPT !.AccuracyScore =
                  (accuracy * a.ResolvedPredictions + 50 * priorStrength * ScoreUnit)
                      \div (a.ResolvedPredictions + priorStrength)]

\* math.Log10(n) * 25 for a whole number n, in ten-thousandths
Log10Times25(n) == DivUnit(LogIntUnit(n), LogIntUnit(10)) \div 4

RecalculateEngagementScore(a) ==
    LET totalEngagement ==
            a.TotalUpvotesReceived + a.TotalCommentsReceived + a.TotalFollowers
    IN  IF totalEngagement <= 0 THEN [a EXCEPT !.EngagementScore = 0]
        ELSE [a EXCEPT !.EngagementScore =
                  Min(100 * ScoreUnit, Log10Times25(totalEngagement + 1))]

RecalculateActivityScore(a) ==
    IF a.DaysActiveMonth = 0 THEN [a EXCEPT !.ActivityScore = 0]
    ELSE LET baseActivity == (a.DaysActiveMonth * 100 * ScoreUnit) \div 30
             streakBonus == Min(Unit \div 2, (a.CurrentStreak * Unit) \div 60)
         IN  [a EXCEPT !.ActivityScore =
                  Min(100 * ScoreUnit, baseActivity + MulUnit(baseActivity, streakBonus))]

RecalculateCreatorScore(a) ==
    IF a.MarketsCreated = 0 THEN [a EXCEPT !.CreatorScore = 0]
    ELSE [a EXCEPT !.CreatorScore =
              Min(100 * ScoreUnit,
                  a.MarketEngagementAvg \div 2 + a.MarketsCreated * 2 * ScoreUnit)]

\* the weighted combination of the four scores
WeightedComposite(accuracy, engagement, creator, activity) ==
    (accuracy * 40) \div 100 + (engagement * 25) \div 100
        + (creator * 20) \div 100 + (activity * 15) \div 100

RecalculateCompositeScore(a) ==
    [a EXCEPT !.CompositeScore =
         WeightedComposite(a.AccuracyScore, a.EngagementScore,
                           a.CreatorScore, a.ActivityScore)]

RecalculateAllScores(a) ==
    LET scored == RecalculateCompositeScore(RecalculateCreatorScore(
                      RecalculateActivityScore(RecalculateEngagementScore(
                          RecalculateAccuracyScore(a)))))
    IN  [scored EXCEPT !.Reputation = scored.CompositeScore * (Unit \div (100 * ScoreUnit))]

\* variant: every call counts as a new active day
UpdateActivityCountsEveryCall(a, now) ==
    LET counted == IF a.LastActiveAt = NoTime
                   THEN [a EXCEPT !.CurrentStreak = 1, !.DaysActiveMonth = 1]
                   ELSE [a EXCEPT !.DaysActiveMonth = a.DaysActiveMonth + 1]
    IN  [counted EXCEPT !.LastActiveAt = now]

\* UpdateActivity with the reading of time.Now() as now
\* variant: the longest streak follows the current one, down as well as up
UpdateActivityLongestFollows(a, now) ==
    LET today == Midnight(now.day)
        counted ==
            IF a.LastActiveAt = NoTime
            THEN [a EXCEPT !.CurrentStreak = 1, !.DaysActiveMonth = 1]
            ELSE LET daysDiff == DaysBetween(today - Midnight(a.LastActiveAt.day))
                 IN  IF daysDiff = 0 THEN a
                     ELSE IF daysDiff = 1
                          THEN [a EXCEPT !.CurrentStreak = a.CurrentStreak + 1,
                                         !.DaysActiveMonth = a.DaysActiveMonth + 1]
                          ELSE [a EXCEPT !.CurrentStreak = 1,
                                         !.DaysActiveMonth = a.DaysActiveMonth + 1]
    IN  [counted EXCEPT !.LongestStreak = counted.CurrentStreak,
                        !.LastActiveAt = now]

UpdateActivity(a, now) ==
    LET today == Midnight(now.day)
        counted ==
            IF a.LastActiveAt = NoTime
            THEN [a EXCEPT !.CurrentStreak = 1, !.DaysActiveMonth = 1]
            ELSE LET lastActive == Midnight(a.LastActiveAt.day)
                     daysDiff == DaysBetween(today - lastActive)
                 IN  IF daysDiff = 0 THEN a
                     ELSE IF daysDiff = 1
                          THEN [a EXCEPT !.CurrentStreak = a.CurrentStreak + 1,
                                         !.DaysActiveMonth = a.DaysActiveMonth + 1]
                          ELSE [a EXCEPT !.CurrentStreak = 1,
                                         !.DaysActiveMonth = a.DaysActiveMonth + 1]
        longest == IF counted.CurrentStreak > counted.LongestStreak
                   THEN [counted EXCEPT !.LongestStreak = counted.CurrentStreak]
                   ELSE counted
    IN  [longest EXCEPT !.LastActiveAt = now]

(***************************************************************************)
(* The market: one maker, its outstanding shares, and the calls a caller   *)
(* makes on it.  A purchase is charged CostToBuy at the quantities it      *)
(* meets.  The pricing functions are pure, so a quote is recorded in call  *)
(* and leaves the market alone.                                            *)
(***************************************************************************)
MaxTrades == 2

Liquidities == {-5, 0, 1, 10}
ShareSizes  == {1 * Unit, 50 * Unit}
Amounts     == {-1 * Unit, 0, 1 * Unit, 20 * Unit}
Outcomes    == {"yes", "YES", "no", "NO", "maybe"}
\* The purchases: small ones of either outcome, large ones of YES.  float64 keeps
\* a vanishing PriceYes as a tiny positive number where fixed point truncates it
\* to 0, while a vanishing PriceNo, being 1 - PriceYes, is exactly 0 in float64
\* too: with the large orders on YES the model's prices are exactly 0 or 1 in
\* the states where the code's are.
Orders == {[shares |-> 1 * Unit, outcome |-> "YES"],
           [shares |-> 50 * Unit, outcome |-> "YES"],
           [shares |-> 1 * Unit, outcome |-> "NO"]}
NoQuote     == [shares |-> -1, cost |-> -1]

(***************************************************************************)
(* The inputs of the agent's life: the instants the clock shows, one early *)
(* and one late hour of each day, and the one other agent who follows and  *)
(* votes.                                                                  *)
(***************************************************************************)
MaxDay == 3
MaxPredictions == 3
DayHoursShown == {1, 22}
Instants == [day : 0..MaxDay, hour : DayHoursShown]
FirstInstant == [day |-> 0, hour |-> 1]
VoteTypes == {"up", "down"}
NoActivity == [status |-> "none"]

(***************************************************************************)
(* The inputs of the swarm consensus: the agents table and the bets that   *)
(* can be stored for the market.  PlaceBetHandler stores amounts above 0,  *)
(* outcomes "yes" and "no" and confidences from 0 to 1.  Agent 4 has no    *)
(* row in the agents table: its bets are the ones the loop skips.          *)
(***************************************************************************)
MaxBets == 2
RegisteredAgents ==
    (1 :> [ID |-> 1, Name |-> "alpha", Reputation |-> Unit])
    @@ (2 :> [ID |-> 2, Name |-> "beta", Reputation |-> Unit \div 2])
    @@ (3 :> [ID |-> 3, Name |-> "gamma", Reputation |-> 0])
BetAgentIDs == {1, 2, 3, 4}
BetOutcomes == {"yes", "no"}
Stakes == {[Amount |-> 100, Confidence |-> Unit],
           [Amount |-> 1, Confidence |-> Unit \div 2]}
NoResponse == [status |-> "none"]

(***************************************************************************)
(* The inputs of the handlers that share rows of the database: requests    *)
(* run side by side, each reading its rows and writing them back later.    *)
(* A request that has not arrived is idle.                                 *)
(***************************************************************************)
VotesRequired == 3
ApprovalThreshold == 67
StartingBalance == 10000

MaxBallots == 3
MaxBetRequests == 3
MaxVoteRequests == 3

Validators == {1, 2, 3}
CouncilVoteValues == {"approve", "reject"}
BetAmounts == {2500, 10000}
AuthorID == 1
Voters == {1, 2, 3}
IdleRequest == [pc |-> "idle"]

\* the row SubmitMarketHandler creates
NewSubmission ==
    [VotesFor |-> 0, VotesAgainst |-> 0, VotesRequired |-> VotesRequired,
     ApprovalThreshold |-> ApprovalThreshold,
     CouncilStatus |-> "pending", FinalStatus |-> ""]

\* the betting fields of the row the registration creates
NewAccount ==
    [AccountBalance |-> StartingBalance, TotalWagered |-> 0, TotalPredictions |-> 0]

\* the voting fields of the row CreatePredictionHandler creates
NewPrediction == [AgentID |-> AuthorID, Upvotes |-> 0, Downvotes |-> 0]

VARIABLES
    B,          \* LMSR.B of the maker
    qYes, qNo,  \* outstanding shares of each outcome
    collected,  \* currency the maker has been paid
    trades,     \* purchases made
    call,       \* the last call on the engine and what it returned
    agentBets,  \* the agent_bets rows of the market, in the order of the query
    agents,     \* the agents table, by agent id
    response,   \* the last answer of GetSwarmConsensusHandler
    agent,      \* the row of one agent: counters, scores, activity
    clock,      \* what time.Now() returns
    activity,   \* the last call of UpdateActivity and the one before it
    submission,      \* the pending_submissions row of one market submission
    councilVotes,    \* the council_votes rows of the submission
    ballots,         \* the requests to VoteOnSubmissionHandler, by request
    markets,         \* the markets created for the submission
    votingEnded,     \* time.Now() is after the submission's VotingEndsAt
    councilHistory,  \* how often FinalStatus was written, and votes recorded after that
    account,         \* the betting fields of one agent's row
    placedBets,      \* the agent_bets rows of the agent
    betRequests,     \* the requests to PlaceBetHandler, by request
    prediction,      \* the voting fields of one prediction's row
    predictionVotes, \* the prediction_votes rows of the prediction
    voteRequests     \* the requests to VotePredictionHandler, by request

marketVars == <<B, qYes, qNo, collected, trades>>
consensusVars == <<agentBets, agents, response>>
agentVars == <<agent, clock, activity>>
councilVars == <<submission, councilVotes, ballots, markets, votingEnded, councilHistory>>
ledgerVars == <<account, placedBets, betRequests>>
votingVars == <<prediction, predictionVotes, voteRequests>>
serverVars == <<councilVars, ledgerVars, votingVars>>
vars == <<B, qYes, qNo, collected, trades, call, agentBets, agents, response,
          agent, clock, activity, submission, councilVotes, ballots, markets,
          votingEnded, councilHistory, account, placedBets, betRequests,
          prediction, predictionVotes, voteRequests>>

\* the rows as their handlers create them, and no request under way
ServerAtRest ==
    /\ submission = NewSubmission /\ councilVotes = {} /\ markets = 0
    /\ ballots = [r \in 1..MaxBallots |-> IdleRequest]
    /\ votingEnded = FALSE
    /\ councilHistory = [resolutions |-> 0, lateVotes |-> 0]
    /\ account = NewAccount /\ placedBets = <<>>
    /\ betRequests = [r \in 1..MaxBetRequests |-> IdleRequest]
    /\ prediction = NewPrediction /\ predictionVotes = {}
    /\ voteRequests = [r \in 1..MaxVoteRequests |-> IdleRequest]

\* a call that followed a change of the market (construction or purchase)
Settled == call.op \in {"New", "Buy"}

Init ==
    \E liquidity \in Liquidities :
        /\ B = New(liquidity)
        /\ qYes = 0 /\ qNo = 0 /\ collected = 0 /\ trades = 0
        /\ call = [op |-> "New", liquidity |-> liquidity]
        /\ agentBets = <<>> /\ response = NoResponse
        /\ agents = RegisteredAgents
        /\ agent = RegisteredAgent /\ clock = FirstInstant /\ activity = NoActivity
        /\ ServerAtRest

CallNew(liquidity) ==
    /\ B' = New(liquidity)
    /\ qYes' = 0 /\ qNo' = 0 /\ collected' = 0 /\ trades' = 0
    /\ call' = [op |-> "New", liquidity |-> liquidity]
    /\ UNCHANGED <<serverVars, consensusVars, agentVars>>

Buy(shares, outcome) ==
    /\ trades < MaxTrades
    /\ LET paid == CostToBuy(B, qYes, qNo, shares, outcome)
       IN  /\ collected' = collected + paid
           /\ call' = [op |-> "Buy", outcome |-> outcome, shares |-> shares,
                       paid |-> paid,
                       costBefore |-> Cost(B, qYes, qNo),
                       priceBefore |-> PriceYes(B, qYes, qNo)]
    /\ qYes' = IF IsYes(outcome) THEN qYes + shares ELSE qYes
    /\ qNo'  = IF IsYes(outcome) THEN qNo ELSE qNo + shares
    /\ trades' = trades + 1
    /\ B' = B
    /\ UNCHANGED <<serverVars, consensusVars, agentVars>>

\* a quote; a second quote of the same outcome keeps the first beside it
CallCostToBuy(shares, outcome) ==
    /\ Settled \/ (call.op = "CostToBuy" /\ call.outcome = outcome /\ call.prev = NoQuote)
    /\ call' = [op |-> "CostToBuy", outcome |-> outcome, err |-> PricingError(outcome), shares |-> shares,
                cost |-> CostToBuy(B, qYes, qNo, shares, outcome),
                prev |-> IF call.op = "CostToBuy"
                         THEN [shares |-> call.shares, cost |-> call.cost]
                         ELSE NoQuote]
    /\ UNCHANGED <<serverVars, marketVars, consensusVars, agentVars>>

CallCostToSell(shares, outcome) ==
    /\ Settled
    /\ call' = [op |-> "CostToSell", outcome |-> outcome, err |-> PricingError(outcome), shares |-> shares,
                proceeds |-> CostToSell(B, qYes, qNo, shares, outcome)]
    /\ UNCHANGED <<serverVars, marketVars, consensusVars, agentVars>>

\* SharesForCost of an amount
CallSharesForCost(cost, outcome) ==
    /\ Settled
    /\ call' = [op |-> "SharesForCost", outcome |-> outcome, err |-> PricingError(outcome), cost |-> cost,
                shares |-> SharesForCost(B, qYes, qNo, cost, outcome),
                evaluations |-> SharesForCostEvaluations(B, qYes, qNo, cost, outcome),
                quoted |-> NoQuote]
    /\ UNCHANGED <<serverVars, marketVars, consensusVars, agentVars>>

\* SharesForCost of the cost CostToBuy has just quoted, for the same outcome
InvertQuote ==
    /\ call.op = "CostToBuy"
    /\ call' = [op |-> "SharesForCost", outcome |-> call.outcome, err |-> PricingError(call.outcome), cost |-> call.cost,
                shares |-> SharesForCost(B, qYes, qNo, call.cost, call.outcome),
                evaluations |-> SharesForCostEvaluations(B, qYes, qNo, call.cost, call.outcome),
                quoted |-> [shares |-> call.shares, cost |-> call.cost]]
    /\ UNCHANGED <<serverVars, marketVars, consensusVars, agentVars>>

CallNewProbabilityAfterBet(amount, outcome) ==
    /\ Settled
    /\ call' = [op |-> "NewProbabilityAfterBet", outcome |-> outcome, err |-> PricingError(outcome), amount |-> amount,
                priceBefore |-> PriceYes(B, qYes, qNo),
                priceAfter |-> NewProbabilityAfterBet(B, qYes, qNo, amount, outcome)]
    /\ UNCHANGED <<serverVars, marketVars, consensusVars, agentVars>>

CallSimulateBet(amount, outcome) ==
    /\ Settled
    /\ call' = [op |-> "SimulateBet", outcome |-> outcome, err |-> PricingError(outcome), amount |-> amount,
                sim |-> SimulateBet(B, qYes, qNo, amount, outcome)]
    /\ UNCHANGED <<serverVars, marketVars, consensusVars, agentVars>>

CallGetMarketState ==
    /\ Settled
    /\ call' = [op |-> "GetMarketState",
                state |-> GetMarketState(B, qYes, qNo, collected)]
    /\ UNCHANGED <<serverVars, marketVars, consensusVars, agentVars>>

\* Cost and CostToBuy at the quantities and at the quantities swapped, with
\* the outcome swapped
CallCostBothWays(shares) ==
    /\ Settled
    /\ call' = [op |-> "CostBothWays", shares |-> shares,
                cost |-> Cost(B, qYes, qNo),
                costSwapped |-> Cost(B, qNo, qYes),
                buyYes |-> CostToBuy(B, qYes, qNo, shares, "YES"),
                buyNoSwapped |-> CostToBuy(B, qNo, qYes, shares, "NO")]
    /\ UNCHANGED <<serverVars, marketVars, consensusVars, agentVars>>

\* CostToBuy and CostToSell around a purchase: shares are priced, priced again
\* at the quantities the purchase leads to (sold back, and more bought), and
\* priced together with the further shares at once
CallBuyThenSell(shares, more, outcome) ==
    /\ Settled
    /\ LET boughtYes == IF IsYes(outcome) THEN qYes + shares ELSE qYes
           boughtNo == IF IsYes(outcome) THEN qNo ELSE qNo + shares
       IN  call' = [op |-> "BuyThenSell", outcome |-> outcome,
                    shares |-> shares, more |-> more,
                    buy |-> CostToBuy(B, qYes, qNo, shares, outcome),
                    sell |-> CostToSell(B, qYes, qNo, shares, outcome),
                    buyNegative |-> CostToBuy(B, qYes, qNo, -shares, outcome),
                    sellBack |-> CostToSell(B, boughtYes, boughtNo, shares, outcome),
                    buyMore |-> CostToBuy(B, boughtYes, boughtNo, more, outcome),
                    buyAtOnce |-> CostToBuy(B, qYes, qNo, shares + more, outcome)]
    /\ UNCHANGED <<serverVars, marketVars, consensusVars, agentVars>>

CallMaxLoss ==
    /\ Settled
    /\ call' = [op |-> "MaxLoss", loss |-> MaxLoss(B)]
    /\ UNCHANGED <<serverVars, marketVars, consensusVars, agentVars>>

Next ==
    \/ \E liquidity \in Liquidities : CallNew(liquidity)
    \/ \E order \in Orders : Buy(order.shares, order.outcome)
    \/ \E shares \in ShareSizes, outcome \in Outcomes : CallCostToBuy(shares, outcome)
    \/ \E shares \in ShareSizes, outcome \in Outcomes : CallCostToSell(shares, outcome)
    \/ \E cost \in Amounts, outcome \in Outcomes : CallSharesForCost(cost, outcome)
    \/ InvertQuote
    \/ \E amount \in Amounts, outcome \in Outcomes : CallNewProbabilityAfterBet(amount, outcome)
    \/ \E amount \in Amounts, outcome \in Outcomes : CallSimulateBet(amount, outcome)
    \/ CallGetMarketState
    \/ CallMaxLoss
    \/ \E shares \in ShareSizes : CallCostBothWays(shares)
    \/ \E shares \in ShareSizes, more \in ShareSizes, outcome \in Outcomes :
           CallBuyThenSell(shares, more, outcome)

Spec == Init /\ [][Next]_vars

(***************************************************************************)
(* The swarm consensus of one market: bets are stored and the handler is   *)
(* asked for the consensus.                                                *)
(***************************************************************************)
InitConsensus ==
    /\ B = DefaultLiquidity
    /\ qYes = 0 /\ qNo = 0 /\ collected = 0 /\ trades = 0
    /\ call = [op |-> "New", liquidity |-> DefaultLiquidity]
    /\ agentBets = <<>> /\ response = NoResponse
    /\ agents = RegisteredAgents
    /\ agent = RegisteredAgent /\ clock = FirstInstant /\ activity = NoActivity
    /\ ServerAtRest

\* a row of agent_bets with the fields PlaceBetHandler fills in
StoreBet(agentID, outcome, stake) ==
    /\ Len(agentBets) < MaxBets
    /\ agentBets' = Append(agentBets,
           [AgentID |-> agentID, Outcome |-> outcome, Amount |-> stake.Amount,
            Confidence |-> stake.Confidence, Reasoning |-> ""])
    /\ UNCHANGED <<serverVars, marketVars, call, agents, response, agentVars>>

\* variant: only agents of positive reputation are looked up
AgentMapOfReputable(bets) ==
    LET agentIDs == {bets[k].AgentID : k \in 1..Len(bets)}
    IN  [id \in {x \in agentIDs \cap DOMAIN agents : agents[x].Reputation > 0}
             |-> agents[id]]

\* the agents who bet, as looked up by the handler
AgentMapOf(bets) ==
    LET agentIDs == {bets[k].AgentID : k \in 1..Len(bets)}
    IN  [id \in agentIDs \cap DOMAIN agents |-> agents[id]]

GetSwarmConsensus ==
    /\ response' = [status |-> "ok", bets |-> agentBets,
                    agentMap |-> AgentMapOf(agentBets),
                    consensus |-> calculateSwarmConsensus(agentBets, AgentMapOf(agentBets))]
    /\ UNCHANGED <<serverVars, marketVars, call, agentBets, agents, agentVars>>

NextConsensus ==
    \/ \E agentID \in BetAgentIDs, outcome \in BetOutcomes, stake \in Stakes :
           StoreBet(agentID, outcome, stake)
    \/ GetSwarmConsensus

SpecConsensus == InitConsensus /\ [][NextConsensus]_vars

(***************************************************************************)
(* The ranking of the top predictors: lists long enough for the limit of   *)
(* ten to cut them, built from two bets, over three agents tables: agents  *)
(* of different reputation, agents of equal reputation (bets of equal      *)
(* weight that differ in agent and outcome) and a table without agent 2    *)
(* (its bets are orphaned).  One request is made per run.                  *)
(***************************************************************************)
MaxRankedBets == TopPredictorsLimit + MaxBets - 1
RankedBets ==
    {[AgentID |-> 1, Outcome |-> "yes", Amount |-> 100, Confidence |-> Unit,
      Reasoning |-> ""],
     [AgentID |-> 2, Outcome |-> "no", Amount |-> 100, Confidence |-> Unit,
      Reasoning |-> ""]}
RankingTables ==
    {RegisteredAgents,
     (1 :> [ID |-> 1, Name |-> "alpha", Reputation |-> Unit \div 2])
         @@ (2 :> [ID |-> 2, Name |-> "beta", Reputation |-> Unit \div 2]),
     (1 :> [ID |-> 1, Name |-> "alpha", Reputation |-> Unit])}

InitRanking ==
    /\ B = DefaultLiquidity
    /\ qYes = 0 /\ qNo = 0 /\ collected = 0 /\ trades = 0
    /\ call = [op |-> "New", liquidity |-> DefaultLiquidity]
    /\ agentBets = <<>> /\ response = NoResponse
    /\ agents \in RankingTables
    /\ agent = RegisteredAgent /\ clock = FirstInstant /\ activity = NoActivity
    /\ ServerAtRest

StoreRankedBet(bet) ==
    /\ Len(agentBets) < MaxRankedBets
    /\ response = NoResponse
    /\ agentBets' = Append(agentBets, bet)
    /\ UNCHANGED <<serverVars, marketVars, call, agents, response, agentVars>>

\* the one request of the run
GetRankedConsensus ==
    /\ response = NoResponse
    /\ GetSwarmConsensus

NextRanking ==
    \/ \E bet \in RankedBets : StoreRankedBet(bet)
    \/ GetRankedConsensus

SpecRanking == InitRanking /\ [][NextRanking]_vars

(***************************************************************************)
(* The life of one agent: it is registered, predicts, is voted on and      *)
(* followed by one other agent, and the admin recalculation runs; the      *)
(* clock moves on in between.                                              *)
(***************************************************************************)
InitAgent ==
    /\ B = DefaultLiquidity
    /\ qYes = 0 /\ qNo = 0 /\ collected = 0 /\ trades = 0
    /\ call = [op |-> "New", liquidity |-> DefaultLiquidity]
    /\ agentBets = <<>> /\ response = NoResponse
    /\ agents = RegisteredAgents
    /\ agent = RegisteredAgent /\ clock = FirstInstant /\ activity = NoActivity
    /\ ServerAtRest

\* the fields UpdateActivity reads and writes
ActivityFields(a) ==
    [LastActiveAt |-> a.LastActiveAt, CurrentStreak |-> a.CurrentStreak,
     LongestStreak |-> a.LongestStreak, DaysActiveMonth |-> a.DaysActiveMonth]

IsLater(t, u) == t.day > u.day \/ (t.day = u.day /\ t.hour > u.hour)

Tick(t) ==
    /\ IsLater(t, clock)
    /\ clock' = t
    /\ UNCHANGED <<serverVars, marketVars, call, consensusVars, agent, activity>>

\* CreatePredictionHandler, for a market the agent has not predicted on
Predict ==
    /\ agent.TotalPredictions < MaxPredictions
    /\ LET counted == [agent EXCEPT !.TotalPredictions = agent.TotalPredictions + 1]
           active == UpdateActivity(counted, clock)
       IN  /\ agent' = RecalculateCompositeScore(RecalculateActivityScore(active))
           /\ activity' = [status |-> "done", now |-> clock,
                           before |-> ActivityFields(counted),
                           after |-> ActivityFields(active),
                           prev |-> IF activity.status = "done"
                                    THEN [status |-> "done",
                                          before |-> activity.before,
                                          after |-> activity.after]
                                    ELSE NoActivity]
    /\ UNCHANGED <<serverVars, marketVars, call, consensusVars, clock>>

\* VotePredictionHandler by the other agent on the agent's prediction: the
\* same vote again removes it, the other vote changes it
Vote(voteType) ==
    /\ agent.TotalPredictions > 0
    /\ LET existing == IF agent.TotalUpvotesReceived > 0 THEN "up"
                       ELSE IF agent.TotalDownvotesReceived > 0 THEN "down"
                       ELSE "none"
           upvoteSum == IF voteType = "up" /\ existing # "up" THEN 1 ELSE 0
           downvoteSum == IF voteType = "down" /\ existing # "down" THEN 1 ELSE 0
           author == [agent EXCEPT !.TotalUpvotesReceived = upvoteSum,
                                   !.TotalDownvotesReceived = downvoteSum]
       IN  agent' = RecalculateCompositeScore(RecalculateEngagementScore(author))
    /\ UNCHANGED <<serverVars, marketVars, call, consensusVars, clock, activity>>

\* FollowAgentHandler by the other agent: a follow, or the unfollow of an
\* existing one
Follow ==
    /\ LET followed == [agent EXCEPT !.TotalFollowers =
                            IF agent.TotalFollowers > 0
                            THEN agent.TotalFollowers - 1
                            ELSE agent.TotalFollowers + 1]
       IN  agent' = RecalculateCompositeScore(RecalculateEngagementScore(followed))
    /\ UNCHANGED <<serverVars, marketVars, call, consensusVars, clock, activity>>

\* UnfollowAgentHandler by the other agent
Unfollow ==
    /\ agent.TotalFollowers > 0
    /\ LET followed == [agent EXCEPT !.TotalFollowers = agent.TotalFollowers - 1]
       IN  agent' = RecalculateCompositeScore(RecalculateEngagementScore(followed))
    /\ UNCHANGED <<serverVars, marketVars, call, consensusVars, clock, activity>>

\* RecalculateAllScoresHandler for the agent: the counters are counted again
\* from the tables (no prediction is resolved, no comment stored) and all
\* scores recalculated
RecalculateAll(marketsCreated) ==
    /\ LET counted == [agent EXCEPT !.ResolvedPredictions = 0,
                                    !.CorrectPredictions = 0,
                                    !.TotalCommentsReceived = 0,
                                    !.MarketsCreated = marketsCreated]
       IN  agent' = RecalculateAllScores(counted)
    /\ UNCHANGED <<serverVars, marketVars, call, consensusVars, clock, activity>>

NextAgent ==
    \/ \E t \in Instants : Tick(t)
    \/ Predict
    \/ \E voteType \in VoteTypes : Vote(voteType)
    \/ Follow
    \/ Unfollow
    \/ \E marketsCreated \in {0, 1} : RecalculateAll(marketsCreated)

SpecAgent == InitAgent /\ [][NextAgent]_vars

(***************************************************************************)
(* The score recalculations as functions of the raw counters: the agents   *)
(* are every combination of the counters below (none negative), with the   *)
(* scores of a registration, and each recalculation is applied to them.    *)
(***************************************************************************)
CounterValues ==
    [ResolvedPredictions : {0, 1, 10, 100},
     CorrectPredictions : {0, 1, 20, 80},
     TotalUpvotesReceived : {0, 9, 20000},
     TotalFollowers : {0, 1},
     DaysActiveMonth : {0, 15, 45},
     CurrentStreak : {0, 30, 90},
     MarketsCreated : {0, 1, 60},
     MarketEngagementAvg : {0, 300 * ScoreUnit}]

AgentWithCounters(c) ==
    [RegisteredAgent EXCEPT
         !.ResolvedPredictions = c.ResolvedPredictions,
         !.CorrectPredictions = c.CorrectPredictions,
         !.TotalPredictions = Max(c.ResolvedPredictions, c.CorrectPredictions),
         !.TotalUpvotesReceived = c.TotalUpvotesReceived,
         !.TotalFollowers = c.TotalFollowers,
         !.DaysActiveMonth = c.DaysActiveMonth,
         !.CurrentStreak = c.CurrentStreak,
         !.LongestStreak = c.CurrentStreak,
         !.MarketsCreated = c.MarketsCreated,
         !.MarketEngagementAvg = c.MarketEngagementAvg]

InitScores ==
    /\ B = DefaultLiquidity
    /\ qYes = 0 /\ qNo = 0 /\ collected = 0 /\ trades = 0
    /\ call = [op |-> "New", liquidity |-> DefaultLiquidity]
    /\ agentBets = <<>> /\ response = NoResponse
    /\ agents = RegisteredAgents
    /\ \E c \in CounterValues : agent = AgentWithCounters(c)
    /\ clock = FirstInstant /\ activity = NoActivity
    /\ ServerAtRest

CallRecalculateAccuracyScore ==
    /\ call.op = "New"
    /\ agent' = RecalculateAccuracyScore(agent)
    /\ call' = [op |-> "RecalculateAccuracyScore", before |-> agent]
    /\ UNCHANGED <<serverVars, marketVars, consensusVars, clock, activity>>

CallRecalculateAllScores ==
    /\ call.op = "New"
    /\ agent' = RecalculateAllScores(agent)
    /\ call' = [op |-> "RecalculateAllScores", before |-> agent]
    /\ UNCHANGED <<serverVars, marketVars, consensusVars, clock, activity>>

NextScores ==
    \/ CallRecalculateAccuracyScore
    \/ CallRecalculateAllScores

SpecScores == InitScores /\ [][NextScores]_vars

(***************************************************************************)
(* One outcome string read by both engines: the maker simulates a bet on   *)
(* it in an uneven or even market, the aggregator counts a bet that        *)
(* carries it.                                                             *)
(***************************************************************************)
OutstandingShares == {[qYes |-> 0, qNo |-> 0],
                      [qYes |-> 5 * Unit, qNo |-> 0],
                      [qYes |-> 0, qNo |-> 5 * Unit],
                      [qYes |-> 20 * Unit, qNo |-> 10 * Unit]}

SmallStakes == {[Amount |-> 1, Confidence |-> Unit \div 2],
                [Amount |-> 5, Confidence |-> Unit]}

InitVocabulary ==
    /\ B = 10 /\ collected = 0 /\ trades = 0
    /\ \E q \in OutstandingShares : qYes = q.qYes /\ qNo = q.qNo
    /\ call = [op |-> "New", liquidity |-> 10]
    /\ \E agentID \in DOMAIN RegisteredAgents, outcome \in Outcomes, stake \in SmallStakes :
           agentBets = <<[AgentID |-> agentID, Outcome |-> outcome,
                          Amount |-> stake.Amount, Confidence |-> stake.Confidence,
                          Reasoning |-> ""]>>
    /\ response = NoResponse
    /\ agents = RegisteredAgents
    /\ agent = RegisteredAgent /\ clock = FirstInstant /\ activity = NoActivity
    /\ ServerAtRest

\* the bet's outcome and amount given to SimulateBet
SimulateStoredBet ==
    /\ call.op = "New"
    /\ call' = [op |-> "SimulateBet", outcome |-> agentBets[1].Outcome,
                err |-> PricingError(agentBets[1].Outcome),
                amount |-> agentBets[1].Amount * Unit,
                sim |-> SimulateBet(B, qYes, qNo, agentBets[1].Amount * Unit,
                                    agentBets[1].Outcome)]
    /\ UNCHANGED <<serverVars, marketVars, consensusVars, agentVars>>

\* the bet given to calculateSwarmConsensus
CountStoredBet ==
    /\ response = NoResponse
    /\ response' = [status |-> "ok", bets |-> agentBets,
                    agentMap |-> AgentMapOf(agentBets),
                    consensus |-> calculateSwarmConsensus(agentBets, AgentMapOf(agentBets))]
    /\ UNCHANGED <<serverVars, marketVars, call, agentBets, agents, agentVars>>

NextVocabulary ==
    \/ SimulateStoredBet
    \/ CountStoredBet

SpecVocabulary == InitVocabulary /\ [][NextVocabulary]_vars

(***************************************************************************)
(* The council's vote on one market submission.  VoteOnSubmissionHandler   *)
(* reads the submission and checks it, then records the vote and saves     *)
(* its copy of the submission; it runs in no transaction, so other         *)
(* requests act between the two steps.  ProcessExpiredSubmissionsHandler   *)
(* resolves the submission once its voting period is over.                 *)
(***************************************************************************)
\* approvalPct >= submission.ApprovalThreshold
ApprovalReached(votesFor, totalVotes, threshold) ==
    100 * votesFor >= threshold * totalVotes

InitCouncil ==
    /\ B = DefaultLiquidity
    /\ qYes = 0 /\ qNo = 0 /\ collected = 0 /\ trades = 0
    /\ call = [op |-> "New", liquidity |-> DefaultLiquidity]
    /\ agentBets = <<>> /\ response = NoResponse
    /\ agents = RegisteredAgents
    /\ agent = RegisteredAgent /\ clock = FirstInstant /\ activity = NoActivity
    /\ ServerAtRest

\* the checks of a vote request: the submission is open, its voting period
\* is not over, and the validator has no vote on it
CheckSubmission(r, validator) ==
    /\ ballots[r].pc = "idle"
    /\ submission.FinalStatus = ""
    /\ ~votingEnded
    /\ \A row \in councilVotes : row.ValidatorID # validator
    /\ ballots' = [ballots EXCEPT ![r] = [pc |-> "checked", validator |-> validator,
                                          seen |-> submission]]
    /\ UNCHANGED <<marketVars, call, consensusVars, agentVars, submission,
                   councilVotes, markets, votingEnded, councilHistory,
                   ledgerVars, votingVars>>

\* a request that finds the submission closed, expired or voted on returns an error
RefuseBallot(r, validator) ==
    /\ ballots[r].pc = "idle"
    /\ \/ submission.FinalStatus # ""
       \/ votingEnded
       \/ \E row \in councilVotes : row.ValidatorID = validator
    /\ ballots' = [ballots EXCEPT ![r] = [pc |-> "refused", validator |-> validator]]
    /\ UNCHANGED <<marketVars, call, consensusVars, agentVars, submission,
                   councilVotes, markets, votingEnded, councilHistory,
                   ledgerVars, votingVars>>

\* the copy of the submission after the vote is counted and, with enough
\* votes, resolved
CountedVote(seen, vote) ==
    LET counted == IF vote = "approve"
                   THEN [seen EXCEPT !.VotesFor = seen.VotesFor + 1,
                                     !.CouncilStatus = "voting"]
                   ELSE [seen EXCEPT !.VotesAgainst = seen.VotesAgainst + 1,
                                     !.CouncilStatus = "voting"]
        totalVotes == counted.VotesFor + counted.VotesAgainst
    IN  IF totalVotes >= counted.VotesRequired
        THEN IF ApprovalReached(counted.VotesFor, totalVotes, counted.ApprovalThreshold)
             THEN [counted EXCEPT !.FinalStatus = "approved", !.CouncilStatus = "approved"]
             ELSE [counted EXCEPT !.FinalStatus = "rejected", !.CouncilStatus = "rejected"]
        ELSE counted

\* the vote is recorded and the request's copy of the submission is saved;
\* the unique index on (submission, validator) fails a second row
RecordVote(r, vote) ==
    /\ ballots[r].pc = "checked"
    /\ IF \E row \in councilVotes : row.ValidatorID = ballots[r].validator
       THEN /\ ballots' = [ballots EXCEPT ![r].pc = "failed"]
            /\ UNCHANGED <<submission, councilVotes, markets, councilHistory>>
       ELSE LET saved == CountedVote(ballots[r].seen, vote)
            IN  /\ councilVotes' = councilVotes \cup
                       {[ValidatorID |-> ballots[r].validator, Vote |-> vote]}
                /\ submission' = saved
                /\ markets' = IF saved.FinalStatus = "approved" THEN markets + 1
                              ELSE markets
                /\ councilHistory' =
                       [resolutions |-> IF saved.FinalStatus # ""
                                        THEN councilHistory.resolutions + 1
                                        ELSE councilHistory.resolutions,
                        lateVotes |-> IF submission.FinalStatus # ""
                                      THEN councilHistory.lateVotes + 1
                                      ELSE councilHistory.lateVotes]
                /\ ballots' = [ballots EXCEPT ![r].pc = "done"]
    /\ UNCHANGED <<marketVars, call, consensusVars, agentVars, votingEnded,
                   ledgerVars, votingVars>>

\* time.Now() passes the submission's VotingEndsAt
VotingPeriodEnds ==
    /\ ~votingEnded
    /\ votingEnded' = TRUE
    /\ UNCHANGED <<marketVars, call, consensusVars, agentVars, submission,
                   councilVotes, ballots, markets, councilHistory,
                   ledgerVars, votingVars>>

ProcessExpiredSubmissions ==
    /\ votingEnded
    /\ submission.FinalStatus = ""
    /\ LET totalVotes == submission.VotesFor + submission.VotesAgainst
           approved == /\ totalVotes # 0
                       /\ ApprovalReached(submission.VotesFor, totalVotes,
                                          submission.ApprovalThreshold)
           status == IF totalVotes = 0 THEN "expired"
                     ELSE IF approved THEN "approved" ELSE "rejected"
       IN  /\ submission' = [submission EXCEPT !.FinalStatus = status,
                                               !.CouncilStatus = status]
           /\ markets' = IF approved THEN markets + 1 ELSE markets
    /\ councilHistory' = [councilHistory EXCEPT !.resolutions = @ + 1]
    /\ UNCHANGED <<marketVars, call, consensusVars, agentVars, councilVotes,
                   ballots, votingEnded, ledgerVars, votingVars>>

NextCouncil ==
    \/ \E r \in 1..MaxBallots, validator \in Validators : CheckSubmission(r, validator)
    \/ \E r \in 1..MaxBallots, validator \in Validators : RefuseBallot(r, validator)
    \/ \E r \in 1..MaxBallots, vote \in CouncilVoteValues : RecordVote(r, vote)
    \/ VotingPeriodEnds
    \/ ProcessExpiredSubmissions

SpecCouncil == InitCouncil /\ [][NextCouncil]_vars

(***************************************************************************)
(* The bets of one agent.  PlaceBetHandler authenticates the request,      *)
(* which reads the agent's row, checks the balance against the amount, and *)
(* then, in a transaction, saves its copy of the row with the balance      *)
(* lowered and the statistics raised and creates the bet.  Requests of the *)
(* agent run side by side.                                                 *)
(***************************************************************************)
InitLedger ==
    /\ B = DefaultLiquidity
    /\ qYes = 0 /\ qNo = 0 /\ collected = 0 /\ trades = 0
    /\ call = [op |-> "New", liquidity |-> DefaultLiquidity]
    /\ agentBets = <<>> /\ response = NoResponse
    /\ agents = RegisteredAgents
    /\ agent = RegisteredAgent /\ clock = FirstInstant /\ activity = NoActivity
    /\ ServerAtRest

\* ValidateClaimedAgent reads the row; the balance covers the amount
AdmitBet(r, amount) ==
    /\ betRequests[r].pc = "idle"
    /\ account.AccountBalance >= amount
    /\ betRequests' = [betRequests EXCEPT ![r] = [pc |-> "checked", amount |-> amount,
                                                  seen |-> account]]
    /\ UNCHANGED <<marketVars, call, consensusVars, agentVars, councilVars,
                   account, placedBets, votingVars>>

\* the balance does not cover the amount: "Insufficient balance"
RejectBet(r, amount) ==
    /\ betRequests[r].pc = "idle"
    /\ account.AccountBalance < amount
    /\ betRequests' = [betRequests EXCEPT ![r] = [pc |-> "rejected", amount |-> amount]]
    /\ UNCHANGED <<marketVars, call, consensusVars, agentVars, councilVars,
                   account, placedBets, votingVars>>

\* the transaction commits: the request's copy of the row replaces the row
CommitBet(r) ==
    /\ betRequests[r].pc = "checked"
    /\ LET seen == betRequests[r].seen
           amount == betRequests[r].amount
       IN  /\ account' = [AccountBalance |-> seen.AccountBalance - amount,
                          TotalPredictions |-> seen.TotalPredictions + 1,
                          TotalWagered |-> seen.TotalWagered + amount]
           /\ placedBets' = Append(placedBets, [Request |-> r, Amount |-> amount])
    /\ betRequests' = [betRequests EXCEPT ![r].pc = "done"]
    /\ UNCHANGED <<marketVars, call, consensusVars, agentVars, councilVars, votingVars>>

\* a statement of the transaction fails: tx.Rollback()
RollBackBet(r) ==
    /\ betRequests[r].pc = "checked"
    /\ betRequests' = [betRequests EXCEPT ![r].pc = "rolled back"]
    /\ UNCHANGED <<marketVars, call, consensusVars, agentVars, councilVars,
                   account, placedBets, votingVars>>

NextLedger ==
    \/ \E r \in 1..MaxBetRequests, amount \in BetAmounts : AdmitBet(r, amount)
    \/ \E r \in 1..MaxBetRequests, amount \in BetAmounts : RejectBet(r, amount)
    \/ \E r \in 1..MaxBetRequests : CommitBet(r)
    \/ \E r \in 1..MaxBetRequests : RollBackBet(r)

SpecLedger == InitLedger /\ [][NextLedger]_vars

(***************************************************************************)
(* The votes on one prediction.  VotePredictionHandler reads the           *)
(* prediction and refuses its author; then, in a transaction, it looks for *)
(* the voter's vote, removes, changes or creates it, adjusts the counters  *)
(* of its copy of the prediction, saves the copy and refreshes the         *)
(* author's engagement.  A removed vote stays in the table as a deleted    *)
(* row (gorm.Model), which the unique index on (prediction, voter) still   *)
(* counts; the result of tx.Create is not looked at.                       *)
(***************************************************************************)
InitVotes ==
    /\ B = DefaultLiquidity
    /\ qYes = 0 /\ qNo = 0 /\ collected = 0 /\ trades = 0
    /\ call = [op |-> "New", liquidity |-> DefaultLiquidity]
    /\ agentBets = <<>> /\ response = NoResponse
    /\ agents = RegisteredAgents
    /\ agent = [RegisteredAgent EXCEPT !.TotalPredictions = 1]
    /\ clock = FirstInstant /\ activity = NoActivity
    /\ ServerAtRest

\* prediction.Upvotes++ or prediction.Downvotes++
CountVote(p, voteType) ==
    IF voteType = "up" THEN [p EXCEPT !.Upvotes = p.Upvotes + 1]
    ELSE [p EXCEPT !.Downvotes = p.Downvotes + 1]

\* prediction.Upvotes-- or prediction.Downvotes--
DiscountVote(p, voteType) ==
    IF voteType = "up" THEN [p EXCEPT !.Upvotes = p.Upvotes - 1]
    ELSE [p EXCEPT !.Downvotes = p.Downvotes - 1]

\* the author's row after the sums over its predictions are stored and the
\* engagement and composite scores recalculated
AuthorAfter(p) ==
    RecalculateCompositeScore(RecalculateEngagementScore(
        [agent EXCEPT !.TotalUpvotesReceived = p.Upvotes,
                      !.TotalDownvotesReceived = p.Downvotes]))

ReadPrediction(r, voter, voteType) ==
    /\ voteRequests[r].pc = "idle"
    /\ prediction.AgentID # voter
    /\ voteRequests' = [voteRequests EXCEPT ![r] =
           [pc |-> "read", voter |-> voter, voteType |-> voteType, seen |-> prediction]]
    /\ UNCHANGED <<marketVars, call, consensusVars, agentVars, councilVars,
                   ledgerVars, prediction, predictionVotes>>

\* "Cannot vote on your own prediction"
RefuseOwnVote(r, voter, voteType) ==
    /\ voteRequests[r].pc = "idle"
    /\ prediction.AgentID = voter
    /\ voteRequests' = [voteRequests EXCEPT ![r] =
           [pc |-> "refused", voter |-> voter, voteType |-> voteType]]
    /\ UNCHANGED <<marketVars, call, consensusVars, agentVars, councilVars,
                   ledgerVars, prediction, predictionVotes>>

\* the transaction.  When tx.Create fails on the unique index the database
\* either goes on with the transaction or has aborted it, so that the
\* statements after it and the commit change nothing.
ApplyVote(r, aborts) ==
    /\ voteRequests[r].pc = "read"
    /\ LET voter == voteRequests[r].voter
           voteType == voteRequests[r].voteType
           seen == voteRequests[r].seen
           rows == {row \in predictionVotes : row.VoterID = voter}
           existing == {row \in rows : ~row.Deleted}
       IN  IF existing # {}
           THEN LET existingVote == CHOOSE row \in existing : TRUE
                    removed == DiscountVote(seen, existingVote.VoteType)
                IN  IF existingVote.VoteType = voteType
                    THEN /\ predictionVotes' = (predictionVotes \ {existingVote})
                                \cup {[existingVote EXCEPT !.Deleted = TRUE]}
                         /\ prediction' = removed
                         /\ agent' = AuthorAfter(removed)
                    ELSE /\ predictionVotes' = (predictionVotes \ {existingVote})
                                \cup {[existingVote EXCEPT !.VoteType = voteType]}
                         /\ prediction' = CountVote(removed, voteType)
                         /\ agent' = AuthorAfter(CountVote(removed, voteType))
           ELSE IF rows # {}
                THEN IF aborts
                     THEN UNCHANGED <<predictionVotes, prediction, agent>>
                     ELSE /\ predictionVotes' = predictionVotes
                          /\ prediction' = CountVote(seen, voteType)
                          /\ agent' = AuthorAfter(CountVote(seen, voteType))
                ELSE /\ predictionVotes' = predictionVotes \cup
                            {[VoterID |-> voter, VoteType |-> voteType, Deleted |-> FALSE]}
                     /\ prediction' = CountVote(seen, voteType)
                     /\ agent' = AuthorAfter(CountVote(seen, voteType))
    /\ voteRequests' = [voteRequests EXCEPT ![r].pc = "done"]
    /\ UNCHANGED <<marketVars, call, consensusVars, clock, activity, councilVars,
                   ledgerVars>>

NextVotes ==
    \/ \E r \in 1..MaxVoteRequests, voter \in Voters, voteType \in VoteTypes :
           ReadPrediction(r, voter, voteType)
    \/ \E r \in 1..MaxVoteRequests, voter \in Voters, voteType \in VoteTypes :
           RefuseOwnVote(r, voter, voteType)
    \/ \E r \in 1..MaxVoteRequests, aborts \in BOOLEAN : ApplyVote(r, aborts)

SpecVotes == InitVotes /\ [][NextVotes]_vars

(***************************************************************************)
(* Claims about the market maker, checked under Spec.                      *)
(***************************************************************************)
ValidOutcomes == {"yes", "YES", "no", "NO"}
OutcomeCalls == {"CostToBuy", "CostToSell", "SharesForCost",
                 "NewProbabilityAfterBet", "SimulateBet"}
\* 1e-3 in millionths
RoundTripTolerance == Unit \div 1000

\* C1 (as claimed): inverting the positive cost CostToBuy quoted for a positive
\* number of shares, at the same quantities and for the same outcome, gives
\* back that number of shares within 1e-3.
C1_RoundTripWithinTolerance ==
    (/\ call.op = "SharesForCost" /\ call.quoted # NoQuote
     /\ call.quoted.shares > 0 /\ call.quoted.cost > 0)
        => Abs(call.shares - call.quoted.shares) <= RoundTripTolerance

\* C2: whichever outcome wins, the shares the maker must redeem exceed what it
\* has collected by at most MaxLoss(), and MaxLoss() is B*ln(2) whatever has
\* been traded.
C2_BoundedMakerLoss ==
    /\ qYes - collected <= MaxLoss(B)
    /\ qNo - collected <= MaxLoss(B)
    /\ call.op = "MaxLoss" => call.loss = MulDiv(B, Ln2FS, FSPerUnit)

\* the maker is at its worst case after two purchases: the loss equals the bound
C2_Witness ==
    /\ trades = MaxTrades
    /\ call.op = "Buy"
    /\ qYes - collected = MaxLoss(B)
    /\ qYes - collected > 0

\* C3 (as claimed): the two prices sum to 1 and each lies strictly between 0 and 1.
C3_PricesStrictlyInside ==
    call.op = "GetMarketState" =>
        /\ call.state.PriceYes + call.state.PriceNo = FS
        /\ 0 < call.state.PriceYes /\ call.state.PriceYes < FS
        /\ 0 < call.state.PriceNo /\ call.state.PriceNo < FS

\* C3 (amended): the two prices sum to 1 and each lies in the closed interval
\* [0, 1]; the ends are reached when one exponential vanishes against the other.
C3_PricesSumToOne ==
    call.op = "GetMarketState" =>
        /\ call.state.PriceYes + call.state.PriceNo = FS
        /\ 0 <= call.state.PriceYes /\ call.state.PriceYes <= FS
        /\ 0 <= call.state.PriceNo /\ call.state.PriceNo <= FS

\* prices quoted off the even point and off the ends
C3_Witness ==
    /\ call.op = "GetMarketState"
    /\ qYes # qNo
    /\ 0 < call.state.PriceYes /\ call.state.PriceYes < FS
    /\ call.state.PriceYes # call.state.PriceNo

\* C4: with equal quantities both prices are exactly 0.5, for every liquidity.
C4_EvenPriceAtEqualQuantities ==
    (call.op = "GetMarketState" /\ qYes = qNo) =>
        /\ 2 * call.state.PriceYes = FS
        /\ 2 * call.state.PriceNo = FS

C4_Witness ==
    /\ call.op = "GetMarketState"
    /\ qYes = qNo /\ qYes > 0
    /\ 2 * call.state.PriceYes = FS

\* C5 (as claimed): a pricing function given an outcome string outside the
\* YES/NO domain fails with InvalidOutcome.
C5_InvalidOutcomeRejected ==
    (call.op \in OutcomeCalls /\ call.outcome \notin ValidOutcomes)
        => call.err = "InvalidOutcome"

\* C6: New keeps a positive liquidity, replaces any other by the default 100,
\* and so every maker has B > 0.
C6_NewLiquidity ==
    /\ B > 0
    /\ call.op = "New" =>
        /\ call.liquidity > 0 => B = call.liquidity
        /\ call.liquidity <= 0 => B = DefaultLiquidity

C6_Witness ==
    /\ call.op = "New" /\ trades = 0
    /\ call.liquidity <= 0
    /\ B = 100

\* what the quantities cost before and after a purchase never decreases, and
\* of two quotes for the same outcome the larger order never costs less
CostNonDecreasing ==
    /\ call.op = "Buy" => Cost(B, qYes, qNo) >= call.costBefore
    /\ (call.op = "CostToBuy" /\ call.prev # NoQuote) =>
        /\ call.prev.shares <= call.shares => call.prev.cost <= call.cost
        /\ call.prev.shares >= call.shares => call.prev.cost >= call.cost

\* C7 (as claimed): Cost is non-decreasing in each quantity and CostToBuy is
\* strictly increasing in the number of shares.
C7_CostStrictlyIncreasing ==
    /\ CostNonDecreasing
    /\ (call.op = "CostToBuy" /\ call.prev # NoQuote) =>
        /\ call.prev.shares < call.shares => call.prev.cost < call.cost
        /\ call.prev.shares > call.shares => call.prev.cost > call.cost

\* C7 (amended): Cost is non-decreasing in each quantity and CostToBuy is
\* non-decreasing in the number of shares; the increase is not strict.
C7_CostNonDecreasing == CostNonDecreasing /\ B > 0

\* a smaller quote followed by a larger one that costs more
C7_Witness ==
    /\ call.op = "CostToBuy" /\ call.prev # NoQuote
    /\ call.prev.shares < call.shares
    /\ call.prev.cost < call.cost
    /\ qYes # qNo

\* the price of YES never moves away from the outcome a positive amount buys
PriceMovesTowardsOutcome ==
    /\ (call.op = "SimulateBet" /\ call.amount > 0) =>
        /\ IsYes(call.outcome) => call.sim.PriceImpact >= 0
        /\ ~IsYes(call.outcome) => call.sim.PriceImpact <= 0
    /\ (call.op = "NewProbabilityAfterBet" /\ call.amount > 0) =>
        /\ IsYes(call.outcome) => call.priceAfter >= call.priceBefore
        /\ ~IsYes(call.outcome) => call.priceAfter <= call.priceBefore

\* from (0,0) at B = 100 the price starts at 0.5 and a YES purchase ends above it
EvenMarketScenario ==
    (/\ call.op = "NewProbabilityAfterBet" /\ call.amount > 0 /\ IsYes(call.outcome)
     /\ B = 100 /\ qYes = 0 /\ qNo = 0) =>
        /\ 2 * call.priceBefore = FS
        /\ 2 * call.priceAfter > FS

Answered == response.status = "ok"

\* reputation * confidence * ln(amount + 1) / ln(100), as the claim states it
StatedWeight(bet) ==
    MulUnit(MulUnit(RegisteredAgents[bet.AgentID].Reputation, bet.Confidence),
            DivUnit(LogIntUnit(bet.Amount + 1), LogIntUnit(100)))

\* the positions of the resolvable bets of an outcome
ResolvableBets(bets, outcome) ==
    {k \in 1..Len(bets) : /\ bets[k].AgentID \in DOMAIN RegisteredAgents
                          /\ bets[k].Outcome = outcome}

RECURSIVE StatedWeightSum(_, _)
StatedWeightSum(bets, positions) ==
    IF positions = {} THEN 0
    ELSE LET k == CHOOSE x \in positions : TRUE
         IN  StatedWeight(bets[k]) + StatedWeightSum(bets, positions \ {k})

YesWeightOf(bets) == StatedWeightSum(bets, ResolvableBets(bets, "yes"))
NoWeightOf(bets)  == StatedWeightSum(bets, ResolvableBets(bets, "no"))

\* the single bet of the example: YES, amount 100, confidence 1.0, reputation 1.0
SingleFullBet ==
    <<[AgentID |-> 1, Outcome |-> "yes", Amount |-> 100, Confidence |-> Unit,
       Reasoning |-> ""]>>

\* C9: for a non-empty bet list the consensus probability is
\* yesSum / (yesSum + noSum) over the stated weights of the resolvable bets,
\* 0.5 when the total weight is zero; it lies in [0, 1], is exactly 1.0 when
\* all weight is on YES (the single full bet included) and exactly 0.0 when
\* all weight is on NO.
C9_ConsensusIsWeightedRatio ==
    (Answered /\ Len(response.bets) > 0) =>
        LET yesSum == YesWeightOf(response.bets)
            noSum  == NoWeightOf(response.bets)
            p      == response.consensus.ConsensusProbability
        IN  /\ response.consensus.Breakdown.YesWeight = yesSum
            /\ response.consensus.Breakdown.NoWeight = noSum
            /\ yesSum + noSum > 0 => p = DivUnit(yesSum, yesSum + noSum)
            /\ yesSum + noSum = 0 => p = Unit \div 2
            /\ 0 <= p /\ p <= Unit
            /\ (yesSum > 0 /\ noSum = 0) => p = Unit
            /\ (noSum > 0 /\ yesSum = 0) => p = 0
            /\ response.bets = SingleFullBet => (yesSum >= Unit /\ p = Unit)

\* a consensus strictly between the sides: weight on both, unevenly
C9_Witness ==
    /\ Answered /\ Len(response.bets) > 0
    /\ YesWeightOf(response.bets) > 0
    /\ NoWeightOf(response.bets) > YesWeightOf(response.bets)
    /\ response.consensus.ConsensusProbability > 0
    /\ response.consensus.ConsensusProbability < Unit \div 2

\* C10: on an empty bet list the report is neutral: consensus probability
\* 0.5, no agents, no bets, nothing wagered, every breakdown count, weight
\* and amount zero, both averages zero and no top predictors.
C10_EmptyListIsNeutral ==
    (Answered /\ Len(response.bets) = 0) =>
        LET c == response.consensus
        IN  /\ c.ConsensusProbability = Unit \div 2
            /\ c.TotalAgents = 0 /\ c.TotalBets = 0 /\ c.TotalWagered = 0
            /\ c.Breakdown.YesCount = 0 /\ c.Breakdown.NoCount = 0
            /\ c.Breakdown.YesWeight = 0 /\ c.Breakdown.NoWeight = 0
            /\ c.Breakdown.YesAmount = 0 /\ c.Breakdown.NoAmount = 0
            /\ c.AverageConfidence = 0 /\ c.AverageReputation = 0
            /\ Len(c.TopPredictors) = 0

\* the handler has answered for a market without bets
C10_Witness ==
    /\ Answered /\ Len(response.bets) = 0
    /\ response.consensus.TotalBets = 0

\* the bets of an answer whose agent the handler resolved, in input order
IsResolvable(bet) == bet.AgentID \in DOMAIN response.agentMap
ResolvableOnly(bets) == SelectSeq(bets, IsResolvable)

\* C11 (as claimed): orphaned bets are excluded from every aggregate: the
\* report equals the report on the same list with the orphaned bets removed,
\* in consensusProbability, totalAgents, totalBets, totalWagered, the
\* breakdown and topPredictors.
C11_OrphansExcludedFromReport ==
    Answered =>
        LET c == response.consensus
            kept == ResolvableOnly(response.bets)
            counts == c.Breakdown.YesCount + c.Breakdown.NoCount
        IN  /\ counts = Len(kept)
            /\ c.TotalBets = counts
            /\ c.TotalWagered = c.Breakdown.YesAmount + c.Breakdown.NoAmount
            /\ c.Breakdown.YesWeight = YesWeightOf(kept)
            /\ c.Breakdown.NoWeight = NoWeightOf(kept)
            /\ Len(c.TopPredictors) = Len(kept)
            /\ c.TotalAgents = Cardinality({kept[k].AgentID : k \in 1..Len(kept)})
            /\ c.ConsensusProbability
                   = calculateSwarmConsensus(kept, response.agentMap).ConsensusProbability

RECURSIVE SumOver(_, _)
SumOver(values, k) ==
    IF k > Len(values) THEN 0 ELSE values[k] + SumOver(values, k + 1)

\* C12 (as claimed): with at least one resolvable bet, averageConfidence and
\* averageReputation are the sums of confidence and of reputation over the
\* resolvable bets divided by the number of resolvable bets.
C12_AveragesOverResolvableBets ==
    LET kept == IF Answered THEN ResolvableOnly(response.bets) ELSE <<>>
    IN  (Answered /\ Len(kept) > 0) =>
            LET confidences == [k \in 1..Len(kept) |-> kept[k].Confidence]
                reputations == [k \in 1..Len(kept) |->
                                   response.agentMap[kept[k].AgentID].Reputation]
            IN  /\ response.consensus.AverageConfidence
                       = SumOver(confidences, 1) \div Len(kept)
                /\ response.consensus.AverageReputation
                       = SumOver(reputations, 1) \div Len(kept)

\* the projection of the k-th resolvable bet of an answer
ProjectionOf(bet) ==
    LET bettor == response.agentMap[bet.AgentID]
    IN  [AgentName |-> bettor.Name, Outcome |-> bet.Outcome, Amount |-> bet.Amount,
         Confidence |-> bet.Confidence, Reputation |-> bettor.Reputation,
         Weight |-> BetWeight(bettor.Reputation, bet.Confidence, bet.Amount),
         Reasoning |-> bet.Reasoning]

\* the place of the k-th projection in the stable descending order: after
\* every heavier projection and after the earlier ones of the same weight
StableRank(projections, k) ==
    Cardinality({m \in 1..Len(projections) :
                    projections[m].Weight > projections[k].Weight})
    + Cardinality({m \in 1..(k - 1) :
                    projections[m].Weight = projections[k].Weight})
    + 1

\* C13: topPredictors is the stable descending-by-weight sort of the
\* projections of the resolvable bets cut to 10: its length is
\* min(10, resolvable bets), weights do not increase along it, every omitted
\* bet weighs no more than the last retained one, and equal weights keep
\* their input order.
C13_TopPredictorsStableSorted ==
    Answered =>
        LET kept == ResolvableOnly(response.bets)
            projections == [k \in 1..Len(kept) |-> ProjectionOf(kept[k])]
            tp == response.consensus.TopPredictors
        IN  /\ Len(tp) = IF Len(kept) > 10 THEN 10 ELSE Len(kept)
            /\ \A i \in 1..Len(tp), j \in 1..Len(tp) :
                   i < j => tp[i].Weight >= tp[j].Weight
            /\ \A k \in 1..Len(kept) :
                   IF StableRank(projections, k) <= Len(tp)
                   THEN tp[StableRank(projections, k)] = projections[k]
                   ELSE projections[k].Weight <= tp[Len(tp)].Weight

\* a list of more than ten resolvable bets, cut to ten, with two different
\* predictors of the same weight among the retained ones
C13_Witness ==
    /\ Answered
    /\ Len(ResolvableOnly(response.bets)) > 10
    /\ Len(response.consensus.TopPredictors) = 10
    /\ \E i \in 1..10, j \in 1..10 :
           /\ i < j
           /\ response.consensus.TopPredictors[i].Weight
                  = response.consensus.TopPredictors[j].Weight
           /\ response.consensus.TopPredictors[i].AgentName
                  # response.consensus.TopPredictors[j].AgentName

(***************************************************************************)
(* Agent scores and activity.                                              *)
(***************************************************************************)
\* C14 (as claimed): in every state of an agent, from its registration on,
\* compositeScore is 0.40 accuracy + 0.25 engagement + 0.20 creator +
\* 0.15 activity (to within the rounding of the four products).
C14_CompositeIsWeightedSum ==
    Abs(100 * agent.CompositeScore
        - (40 * agent.AccuracyScore + 25 * agent.EngagementScore
           + 20 * agent.CreatorScore + 15 * agent.ActivityScore)) <= 400

\* C15 (as claimed): for non-negative counters, after RecalculateAllScores
\* each of the five scores lies in [0, 100].
C15_ScoresWithinRange ==
    call.op = "RecalculateAllScores" =>
        \A score \in {agent.AccuracyScore, agent.EngagementScore,
                      agent.ActivityScore, agent.CreatorScore,
                      agent.CompositeScore} :
            0 <= score /\ score <= 100 * ScoreUnit

\* C16: RecalculateAccuracyScore gives exactly 50 when nothing is resolved
\* and (100 correct + 500) / (resolved + 10) otherwise; for 80 correct out of
\* 100 resolved that is 77.27.
C16_SmoothedAccuracy ==
    call.op = "RecalculateAccuracyScore" =>
        LET resolved == call.before.ResolvedPredictions
            correct == call.before.CorrectPredictions
        IN  /\ resolved = 0 => agent.AccuracyScore = 50 * ScoreUnit
            /\ resolved > 0 =>
                   Abs(agent.AccuracyScore * (resolved + 10)
                       - (100 * correct + 500) * ScoreUnit) <= 2 * (resolved + 10)
            /\ (resolved = 100 /\ correct = 80) =>
                   /\ agent.AccuracyScore >= 772700
                   /\ agent.AccuracyScore <= 772800

\* the example: 80 correct out of 100 resolved
C16_Witness ==
    /\ call.op = "RecalculateAccuracyScore"
    /\ call.before.ResolvedPredictions = 100
    /\ call.before.CorrectPredictions = 80
    /\ agent.AccuracyScore > 77 * ScoreUnit
    /\ agent.AccuracyScore < 78 * ScoreUnit

UpdatedActivity == activity.status = "done"

\* C17: a call of UpdateActivity on the calendar day of lastActiveAt leaves
\* currentStreak, daysActiveMonth and longestStreak as they were and only
\* refreshes lastActiveAt, however often it is repeated that day.
C17_SameDayIsIdempotent ==
    (/\ UpdatedActivity
     /\ activity.before.LastActiveAt # NoTime
     /\ activity.before.LastActiveAt.day = activity.now.day) =>
        /\ activity.after.CurrentStreak = activity.before.CurrentStreak
        /\ activity.after.DaysActiveMonth = activity.before.DaysActiveMonth
        /\ activity.after.LongestStreak = activity.before.LongestStreak
        /\ activity.after.LastActiveAt = activity.now

\* a second call later on the same day, after a streak of two days
C17_Witness ==
    /\ UpdatedActivity
    /\ activity.before.LastActiveAt # NoTime
    /\ activity.before.LastActiveAt.day = activity.now.day
    /\ activity.before.LastActiveAt.hour < activity.now.hour
    /\ activity.after.CurrentStreak = 2

\* C18 (as claimed): the transition is keyed on the gap in calendar days:
\* (1, 1) without prior activity; both counters plus one on the next calendar
\* day, whatever the hours between the instants or the midnights; streak 1
\* and daysActiveMonth plus one for a gap of two or more days; lastActiveAt
\* set to the event time in every case.
C18_KeyedOnCalendarDays ==
    UpdatedActivity =>
        LET before == activity.before
            after == activity.after
            gap == activity.now.day - before.LastActiveAt.day
        IN  /\ after.LastActiveAt = activity.now
            /\ before.LastActiveAt = NoTime =>
                   after.CurrentStreak = 1 /\ after.DaysActiveMonth = 1
            /\ (before.LastActiveAt # NoTime /\ gap = 1) =>
                   /\ after.CurrentStreak = before.CurrentStreak + 1
                   /\ after.DaysActiveMonth = before.DaysActiveMonth + 1
            /\ (before.LastActiveAt # NoTime /\ gap >= 2) =>
                   /\ after.CurrentStreak = 1
                   /\ after.DaysActiveMonth = before.DaysActiveMonth + 1

\* C20 (as claimed): an engine operation is a function of its explicit
\* inputs: two calls of UpdateActivity on agents equal in the fields it
\* reads leave equal streak states.
C20_EqualInputsEqualResults ==
    (/\ UpdatedActivity /\ activity.prev # NoActivity
     /\ activity.prev.before = activity.before) =>
        activity.prev.after = activity.after

\* C19: the cost is symmetric under swapping the two sides:
\* Cost(a, b) = Cost(b, a), and buying s shares of YES at (a, b) costs what
\* buying s shares of NO costs at (b, a).
C19_CostSymmetric ==
    call.op = "CostBothWays" =>
        /\ call.cost = call.costSwapped
        /\ call.buyYes = call.buyNoSwapped

\* an uneven market where the purchase has a price
C19_Witness ==
    /\ call.op = "CostBothWays"
    /\ qYes # qNo
    /\ call.cost > 0
    /\ call.buyYes > 0
    /\ call.buyYes = call.buyNoSwapped

(***************************************************************************)
(* The outcome vocabulary of the two engines, checked under                *)
(* SpecVocabulary.                                                         *)
(***************************************************************************)
\* C21 (as claimed): an outcome string the maker prices as a purchase of YES
\* (the YES price rises) is counted by the aggregator on the YES side, and
\* one the maker prices as a purchase of NO (the YES price falls) is counted
\* on the NO side.
C21_SameOutcomeVocabulary ==
    (call.op = "SimulateBet" /\ Answered) =>
        LET consensus == response.consensus
            bet == agentBets[1]
        IN  /\ call.sim.PriceImpact > 0 =>
                   /\ consensus.Breakdown.YesCount = 1
                   /\ consensus.Breakdown.YesAmount = bet.Amount
                   /\ consensus.Breakdown.NoCount = 0
            /\ call.sim.PriceImpact < 0 =>
                   /\ consensus.Breakdown.NoCount = 1
                   /\ consensus.Breakdown.NoAmount = bet.Amount
                   /\ consensus.Breakdown.YesCount = 0

(***************************************************************************)
(* The search of SharesForCost, checked under Spec.                        *)
(***************************************************************************)
\* the cost of the number of shares SharesForCost returned
ReturnedCost == CostToBuy(B, qYes, qNo, call.shares, call.outcome)

\* the bracket [0, 10 cost] the search starts from contains the root
BracketHoldsRoot ==
    CostToBuy(B, qYes, qNo, call.cost * UpperBoundFactor, call.outcome) >= call.cost

\* C22 (as claimed): for a positive cost the shares SharesForCost returns
\* cost the asked amount within 1e-4, or are the limit of a bisection whose
\* bracket contains the root; the upper bound is never returned silently
\* when the root lies beyond it.
C22_NoSilentBoundary ==
    (call.op = "SharesForCost" /\ call.cost > 0) =>
        \/ Abs(ReturnedCost - call.cost) < Tolerance
        \/ BracketHoldsRoot

\* C23 (as claimed): no field of the BetSimulation SimulateBet returns is NaN
\* or an infinity; with sharesReceived = 0 (an amount that is not positive)
\* AveragePrice is a finite value.
C23_SimulationIsFinite ==
    call.op = "SimulateBet" => call.sim.AveragePrice.class = "finite"

\* C24: SharesForCost evaluates CostToBuy at most 100 times; for a cost that
\* is not positive it returns exactly 0 without an evaluation; for a positive
\* cost it returns shares between 0 and 10 times the cost.
C24_BoundedSearch ==
    call.op = "SharesForCost" =>
        /\ call.evaluations <= MaxIterations
        /\ call.cost <= 0 => (call.shares = 0 /\ call.evaluations = 0)
        /\ call.cost > 0 =>
               /\ 0 <= call.shares
               /\ call.shares <= UpperBoundFactor * call.cost

\* a search that runs through all its iterations, and a call that does not search
C24_Witness ==
    /\ call.op = "SharesForCost"
    /\ call.cost > 0
    /\ call.evaluations = MaxIterations
    /\ call.shares > 0

\* C25: CostToSell is the negated CostToBuy of the negated shares; selling
\* shares from the quantities their purchase led to returns what the purchase
\* cost; and buying shares and then more costs in total what buying them all
\* at once costs.
C25_SellingUndoesBuying ==
    call.op = "BuyThenSell" =>
        /\ call.sell = -call.buyNegative
        /\ call.sellBack = call.buy
        /\ call.buy + call.buyMore = call.buyAtOnce

\* a purchase with a price in an uneven market
C25_Witness ==
    /\ call.op = "BuyThenSell"
    /\ qYes # qNo
    /\ call.buy > 0
    /\ call.buyMore > call.buy

\* C26: after every call of UpdateActivity on an agent that started from a
\* registration, 1 <= currentStreak <= longestStreak <= daysActiveMonth, and
\* the call does not lower longestStreak.
C26_StreakOrder ==
    UpdatedActivity =>
        /\ 1 <= activity.after.CurrentStreak
        /\ activity.after.CurrentStreak <= activity.after.LongestStreak
        /\ activity.after.LongestStreak <= activity.after.DaysActiveMonth
        /\ activity.after.LongestStreak >= activity.before.LongestStreak
        /\ agent.CurrentStreak = activity.after.CurrentStreak
        /\ agent.LongestStreak = activity.after.LongestStreak
        /\ agent.DaysActiveMonth = activity.after.DaysActiveMonth

\* a call that broke a streak of two days or more
C26_Witness ==
    /\ UpdatedActivity
    /\ activity.before.CurrentStreak >= 2
    /\ activity.after.CurrentStreak = 1
    /\ activity.after.LongestStreak >= 2

\* the positions of the bets whose agent has a row, and of those among them
\* whose agent has reputation 0
RegisteredPositions(bets) ==
    {k \in 1..Len(bets) : bets[k].AgentID \in DOMAIN RegisteredAgents}
ZeroReputationPositions(bets) ==
    {k \in RegisteredPositions(bets) : RegisteredAgents[bets[k].AgentID].Reputation = 0}

RECURSIVE AmountSum(_, _)
AmountSum(bets, positions) ==
    IF positions = {} THEN 0
    ELSE LET k == CHOOSE x \in positions : TRUE
         IN  bets[k].Amount + AmountSum(bets, positions \ {k})

\* C27: totalAgents is the number of distinct agents among the resolvable
\* bets, at most yesCount + noCount; a bet of an agent of reputation 0 adds
\* nothing to the weights and is counted in totalAgents, in totalBets and in
\* the count and amount of its outcome.
C27_AgentsCountedOnce ==
    Answered =>
        LET c == response.consensus
            bets == response.bets
            resolvable == RegisteredPositions(bets)
            weighing == resolvable \ ZeroReputationPositions(bets)
            yes == ResolvableBets(bets, "yes")
            no == ResolvableBets(bets, "no")
        IN  /\ c.TotalAgents = Cardinality({bets[k].AgentID : k \in resolvable})
            /\ c.TotalAgents <= c.Breakdown.YesCount + c.Breakdown.NoCount
            /\ c.TotalBets = Len(bets)
            /\ c.Breakdown.YesCount = Cardinality(yes)
            /\ c.Breakdown.NoCount = Cardinality(no)
            /\ c.Breakdown.YesAmount = AmountSum(bets, yes)
            /\ c.Breakdown.NoAmount = AmountSum(bets, no)
            /\ c.Breakdown.YesWeight = StatedWeightSum(bets, yes \cap weighing)
            /\ c.Breakdown.NoWeight = StatedWeightSum(bets, no \cap weighing)

\* two bets of the agent of reputation 0, one on each outcome
C27_Witness ==
    /\ Answered
    /\ Len(response.bets) = 2
    /\ ZeroReputationPositions(response.bets) = {1, 2}
    /\ response.consensus.TotalAgents = 1
    /\ response.consensus.Breakdown.YesCount = 1
    /\ response.consensus.Breakdown.NoCount = 1

(***************************************************************************)
(* The council, checked under SpecCouncil.                                 *)
(***************************************************************************)
ApproveVotes == {row \in councilVotes : row.Vote = "approve"}

\* C28 (as claimed): a submission is approved, and a market is created for
\* it, only with at least 3 council votes of which at least 67% approve;
\* once FinalStatus is set it is not written again and no vote is recorded.
C28_ApprovedOnlyByQuorum ==
    /\ (submission.FinalStatus = "approved" \/ markets > 0) =>
           /\ Cardinality(councilVotes) >= VotesRequired
           /\ ApprovalReached(Cardinality(ApproveVotes), Cardinality(councilVotes),
                              ApprovalThreshold)
    /\ markets > 0 => submission.FinalStatus = "approved"
    /\ councilHistory.resolutions <= 1
    /\ councilHistory.lateVotes = 0

(***************************************************************************)
(* The bets of one agent, checked under SpecLedger.                        *)
(***************************************************************************)
RECURSIVE WageredFrom(_, _)
WageredFrom(bets, k) ==
    IF k > Len(bets) THEN 0 ELSE bets[k].Amount + WageredFrom(bets, k + 1)

\* C29 (as claimed): under every interleaving of the agent's bet requests
\* the balance is never negative, the amounts of the recorded bets sum to no
\* more than the starting balance, the stored balance is the starting
\* balance less that sum, and TotalWagered is that sum.
C29_BalanceNeverOverspent ==
    LET wagered == WageredFrom(placedBets, 1)
    IN  /\ account.AccountBalance >= 0
        /\ wagered <= StartingBalance
        /\ account.AccountBalance = StartingBalance - wagered
        /\ account.TotalWagered = wagered

(***************************************************************************)
(* The votes on one prediction, checked under SpecVotes.                   *)
(***************************************************************************)
LiveVotes == {row \in predictionVotes : ~row.Deleted}

\* C30 (as claimed): after any votes on the prediction, one after another or
\* side by side, each voter holds at most one live vote, Upvotes and
\* Downvotes are the numbers of live "up" and "down" votes (so a vote cast
\* and cast again, which removes it, restores the counts) and are not
\* negative, and the author has no vote on the prediction.
C30_CountersMatchLiveVotes ==
    /\ \A voter \in Voters :
           Cardinality({row \in LiveVotes : row.VoterID = voter}) <= 1
    /\ prediction.Upvotes = Cardinality({row \in LiveVotes : row.VoteType = "up"})
    /\ prediction.Downvotes = Cardinality({row \in LiveVotes : row.VoteType = "down"})
    /\ prediction.Upvotes >= 0
    /\ prediction.Downvotes >= 0
    /\ \A row \in predictionVotes : row.VoterID # prediction.AgentID

====
